---- MODULE Spec2Model ----
(***************************************************************************)
(* Model of load_data.js (final revision, src/load_data.js lines 180-539): *)
(* the field coercions, the statement templates of the seven loaders, the  *)
(* loaders' transaction protocol and the orchestrator's fixed sequence.    *)
(*                                                                         *)
(* Strings are sequences of tokens.  A numeric or date-time field is a     *)
(* sequence of one-character tokens, so that parsing and formatting are    *)
(* computed character by character; a free-text field is a sequence of     *)
(* opaque tokens, which the templates only ever copy.                      *)
(***************************************************************************)
EXTENDS Integers, Sequences, FiniteSets, TLC

VARIABLES
  mainPc,     \* position of the main async function (lines 517-539)
  client,     \* state of the GraknClient object
  session,    \* state of the session object
  next,       \* index in LoadOrder of the loader main awaits now
  loaderPc,   \* position inside the loader being awaited
  tx,         \* the running loader's `transaction` local (index in txs)
  records,    \* the running loader's `records` local
  row,        \* number of records the for-loop has finished
  txs,        \* store side: every transaction opened on the session
  store,      \* store side: the committed statements, in commit order
  calls,      \* every call made on the store API, in order, with outcome
  files,      \* what each loader read from its source file
  input,      \* argument of the function under test (pure specifications)
  output      \* its result

vars == <<mainPc, client, session, next, loaderPc, tx, records, row,
          txs, store, calls, files, input, output>>

runVars == <<mainPc, client, session, next, loaderPc, tx, records, row,
             txs, store, calls, files>>

(***************************************************************************)
(* Bounds                                                                  *)
(***************************************************************************)
\* rows in a source file
MaxRows == 2
\* rows in all source files together
MaxTotalRows == 6
\* characters in a numeric field
MaxDigits == 2

(***************************************************************************)
(* Characters and numbers                                                  *)
(***************************************************************************)
DigitChars == <<"0", "1", "2", "3", "4", "5", "6", "7", "8", "9">>

DigitSet == {DigitChars[d] : d \in 1..10}

DigitValues == [c \in DigitSet |-> (CHOOSE d \in 1..10 : DigitChars[d] = c) - 1]

IsDigit(c) == c \in DigitSet

DigitVal(c) == DigitValues[c]

DigitChar(d) == DigitChars[d + 1]

AllDigits(s) == \A k \in 1..Len(s) : IsDigit(s[k])

RECURSIVE DigitsVal(_)
DigitsVal(s) ==
  IF s = <<>> THEN 0
  ELSE 10 * DigitsVal(SubSeq(s, 1, Len(s) - 1)) + DigitVal(s[Len(s)])

RECURSIVE NatToDigits(_)
NatToDigits(n) ==
  IF n < 10 THEN <<DigitChar(n)>>
  ELSE NatToDigits(n \div 10) \o <<DigitChar(n % 10)>>

RECURSIVE Power10(_)
Power10(k) == IF k = 0 THEN 1 ELSE 10 * Power10(k - 1)

Pow10 == [k \in 0..6 |-> Power10(k)]

\* n written with exactly w digits, zero-padded on the left
Pad(n, w) == [k \in 1..w |-> DigitChar((n \div Pow10[w - k]) % 10)]

RECURSIVE StripTrailingZeros(_)
StripTrailingZeros(s) ==
  IF s # <<>> /\ s[Len(s)] = "0"
  THEN StripTrailingZeros(SubSeq(s, 1, Len(s) - 1))
  ELSE s

NaN == [nan |-> TRUE, int |-> 0, frac |-> <<>>]

Num(i, f) == [nan |-> FALSE, int |-> i, frac |-> StripTrailingZeros(f)]

DotAt(s) == IF \E k \in 1..Len(s) : s[k] = "."
            THEN CHOOSE k \in 1..Len(s) : s[k] = "." /\ \A j \in 1..(k - 1) : s[j] # "."
            ELSE 0

\* parseFloat instead of the unary plus: the longest numeric prefix counts
ToNumberLenient(s) ==
  LET stop == IF \E k \in 1..Len(s) : ~IsDigit(s[k])
              THEN CHOOSE k \in 1..Len(s) :
                     ~IsDigit(s[k]) /\ \A j \in 1..(k - 1) : IsDigit(s[j])
              ELSE Len(s) + 1
  IN IF stop = 1 THEN NaN ELSE Num(DigitsVal(SubSeq(s, 1, stop - 1)), <<>>)

\* The unary plus of JavaScript applied to a string: the empty string is 0,
\* a decimal literal is its value, anything else is NaN.  It never throws.
ToNumber(s) ==
  IF s = <<>> THEN Num(0, <<>>)
  ELSE IF AllDigits(s) THEN Num(DigitsVal(s), <<>>)
  ELSE LET d == DotAt(s)
           ip == SubSeq(s, 1, d - 1)
           fp == SubSeq(s, d + 1, Len(s))
       IN IF d > 0 /\ AllDigits(ip) /\ AllDigits(fp) /\ Len(s) > 1
          THEN Num(DigitsVal(ip), fp)
          ELSE NaN

\* A number interpolated into a template literal: its canonical decimal text.
NumberToString(v) ==
  IF v.nan THEN <<"N", "a", "N">>
  ELSE NatToDigits(v.int) \o (IF v.frac = <<>> THEN <<>> ELSE <<".">> \o v.frac)

(***************************************************************************)
(* Date-time coercion (moment.js as used at lines 221-223)                 *)
(***************************************************************************)
IsLeap(y) == (y % 4 = 0 /\ y % 100 # 0) \/ y % 400 = 0

DaysInMonth(y, m) ==
  IF m = 2 THEN (IF IsLeap(y) THEN 29 ELSE 28)
  ELSE IF m \in {4, 6, 9, 11} THEN 30 ELSE 31

InvalidMoment ==
  [valid |-> FALSE, year |-> 0, month |-> 0, day |-> 0,
   hour |-> 0, minute |-> 0, second |-> 0, ms |-> 0]

\* Shape YYYY-MM-DDTHH:mm:ss with an optional fraction .f+
IsoShape(s) ==
  /\ Len(s) = 19 \/ Len(s) >= 21
  /\ \A k \in 1..Len(s) :
       IF k \in {5, 8} THEN s[k] = "-"
       ELSE IF k = 11 THEN s[k] = "T"
       ELSE IF k \in {14, 17} THEN s[k] = ":"
       ELSE IF k = 20 THEN s[k] = "."
       ELSE IsDigit(s[k])

\* moment(isoString): the fields are read as written (local time, no zone
\* in the source strings); the fraction is cut to milliseconds.  A string
\* that is no date gives an invalid moment, not an exception.
Moment(s) ==
  IF ~IsoShape(s) THEN InvalidMoment
  ELSE LET y  == DigitsVal(SubSeq(s, 1, 4))
           mo == DigitsVal(SubSeq(s, 6, 7))
           d  == DigitsVal(SubSeq(s, 9, 10))
           h  == DigitsVal(SubSeq(s, 12, 13))
           mi == DigitsVal(SubSeq(s, 15, 16))
           se == DigitsVal(SubSeq(s, 18, 19))
           fr == SubSeq(s, 21, Len(s)) \o <<"0", "0", "0">>
       IN IF /\ mo \in 1..12
             /\ d \in 1..DaysInMonth(y, mo)
             /\ h \in 0..23 /\ mi \in 0..59 /\ se \in 0..59
          THEN [valid |-> TRUE, year |-> y, month |-> mo, day |-> d,
                hour |-> h, minute |-> mi, second |-> se,
                ms |-> DigitsVal(SubSeq(fr, 1, 3))]
          ELSE InvalidMoment

\* format token hh: hour of the 12-hour clock, two digits
Hour12(h) == IF h % 12 = 0 THEN 12 ELSE h % 12

\* .format('YYYY-MM-DDThh:mm:ss.SSS')
FormatMoment(m) ==
  IF ~m.valid THEN <<"Invalid date">>
  ELSE Pad(m.year, 4) \o <<"-">> \o Pad(m.month, 2) \o <<"-">> \o Pad(m.day, 2)
       \o <<"T">> \o Pad(Hour12(m.hour), 2) \o <<":">> \o Pad(m.minute, 2)
       \o <<":">> \o Pad(m.second, 2) \o <<".">> \o Pad(m.ms, 3)

toGraknDateTime(isoString) == FormatMoment(Moment(isoString))

(***************************************************************************)
(* Statements.  A statement is the parsed form of the query text: its      *)
(* match clauses, its insert clause and its has-attribute clauses, in the  *)
(* order of the template.  A literal is quoted text or bare text.          *)
(***************************************************************************)
Quoted(s) == [quoted |-> TRUE, text |-> s]

Bare(s) == [quoted |-> FALSE, text |-> s]

\* ${+record[col]}
Plus(raw) == Bare(NumberToString(ToNumber(raw)))

MatchClause(v, type, attr, lit) ==
  [var |-> v, isa |-> type, attr |-> attr, value |-> lit]

Role(r, v) == [role |-> r, var |-> v]

Has(attr, lit) == [attr |-> attr, value |-> lit]

Statement(m, v, type, roles, has) ==
  [match |-> m, var |-> v, isa |-> type, roles |-> roles, has |-> has]

PersonQuery(record) ==
  Statement(<<>>, "person", "person", <<>>,
    << Has("email", Quoted(record["email"])),
       Has("first-name", Quoted(record["first-name"])),
       Has("last-name", Quoted(record["last-name"])),
       Has("city", Quoted(record["city"])),
       Has("phone-number", Quoted(record["phone-number"])),
       Has("gender", Quoted(record["gender"])) >>)

BankQuery(record) ==
  Statement(<<>>, "bank", "bank", <<>>,
    << Has("name", Quoted(record["name"])),
       Has("country", Quoted(record["country"])),
       Has("headquarters", Quoted(record["headquarters"])),
       Has("free-accounts", Quoted(record["free-accounts"])),
       Has("english-customer-service", Quoted(record["english-customer-service"])),
       Has("english-website", Quoted(record["english-website"])),
       Has("english-mobile-app", Quoted(record["english-mobile-app"])),
       Has("free-worldwide-withdrawals", Quoted(record["free-worldwide-withdrawals"])),
       Has("allowed-residents", Quoted(record["allowed-residents"])) >>)

AccountQuery(record) ==
  LET datetimeString == toGraknDateTime(record["opening-date"])
  IN Statement(<<>>, "account", "account", <<>>,
       << Has("balance", Plus(record["balance"])),
          Has("account-number", Quoted(record["account-number"])),
          Has("opening-date", Bare(datetimeString)),
          Has("account-type", Quoted(record["account-type"])) >>)

CardQuery(record) ==
  Statement(<<>>, "card", "card", <<>>,
    << Has("card-number", Plus(record["card-number"])),
       Has("name-on-card", Quoted(record["name-on-card"])),
       Has("created-date", Bare(toGraknDateTime(record["created-date"]))),
       Has("expiry-date", Bare(toGraknDateTime(record["expiry-date"]))) >>)

RepresentationQuery(record) ==
  Statement(
    << MatchClause("account", "account", "account-number",
                   Quoted(record["bank-account"])),
       MatchClause("card", "card", "card-number", Plus(record["bank-card"])) >>,
    "representation", "represented-by",
    << Role("bank-card", "card"), Role("bank-account", "account") >>,
    << Has("identifier", Bare(record["identifier"])) >>)

\* the transaction template with the two role players exchanged
TransactionQuerySwapped(record) ==
  Statement(
    << MatchClause("account-of-receiver", "account", "account-number",
                   Quoted(record["account-of-receiver"])),
       MatchClause("account-of-creator", "account", "account-number",
                   Quoted(record["account-of-creator"])) >>,
    "transaction", "transaction",
    << Role("account-of-receiver", "account-of-creator"),
       Role("account-of-creator", "account-of-receiver") >>,
    << Has("identifier", Plus(record["identifier"])),
       Has("amount", Plus(record["amount"])),
       Has("reference", Quoted(record["reference"])),
       Has("category", Quoted(record["category"])),
       Has("execution-date", Bare(toGraknDateTime(record["execution-date"]))) >>)

TransactionQuery(record) ==
  Statement(
    << MatchClause("account-of-receiver", "account", "account-number",
                   Quoted(record["account-of-receiver"])),
       MatchClause("account-of-creator", "account", "account-number",
                   Quoted(record["account-of-creator"])) >>,
    "transaction", "transaction",
    << Role("account-of-receiver", "account-of-receiver"),
       Role("account-of-creator", "account-of-creator") >>,
    << Has("identifier", Plus(record["identifier"])),
       Has("amount", Plus(record["amount"])),
       Has("reference", Quoted(record["reference"])),
       Has("category", Quoted(record["category"])),
       Has("execution-date", Bare(toGraknDateTime(record["execution-date"]))) >>)

ContractQuery(record) ==
  Statement(
    << MatchClause("bank", "bank", "name", Quoted(record["provider"])),
       MatchClause("customer", "person", "email", Quoted(record["customer"])),
       MatchClause("account", "account", "account-number",
                   Quoted(record["offer"])) >>,
    "contract", "contract",
    << Role("provider", "bank"), Role("customer", "customer"),
       Role("offer", "account") >>,
    << Has("identifier", Bare(record["identifier"])),
       Has("sign-date", Bare(toGraknDateTime(record["sign-date"]))) >>)

\* the awaits of main with accounts and banks exchanged
LoadOrderBanksFirst ==
  << "insertPersons", "insertBanks", "insertAccounts", "insertCards",
     "insertRepresentationRelations", "insertBankTransactionRelations",
     "insertContractRelations" >>

\* the awaits of main with the representation loader ahead of the cards
LoadOrderRelationEarly ==
  << "insertPersons", "insertAccounts", "insertBanks",
     "insertRepresentationRelations", "insertCards",
     "insertBankTransactionRelations", "insertContractRelations" >>

\* the order of the awaits in main
LoadOrder ==
  << "insertPersons", "insertAccounts", "insertBanks", "insertCards",
     "insertRepresentationRelations", "insertBankTransactionRelations",
     "insertContractRelations" >>

Loaders == {LoadOrder[k] : k \in 1..Len(LoadOrder)}

\* the template each loader's for-loop fills for one record
Query(loader, record) ==
  CASE loader = "insertPersons" -> PersonQuery(record)
    [] loader = "insertAccounts" -> AccountQuery(record)
    [] loader = "insertBanks" -> BankQuery(record)
    [] loader = "insertCards" -> CardQuery(record)
    [] loader = "insertRepresentationRelations" -> RepresentationQuery(record)
    [] loader = "insertBankTransactionRelations" -> TransactionQuery(record)
    [] loader = "insertContractRelations" -> ContractQuery(record)

(***************************************************************************)
(* Source files.  Row k of a loader's file is the k-th sample record of    *)
(* that loader (cyclically); a file is a prefix of the rows.  The first    *)
(* record of each loader is the example record of its comment in the       *)
(* source; the second one of the loaders with typed columns is malformed.  *)
(***************************************************************************)
Iso(y, mo, d, h, mi, se, us) ==
  Pad(y, 4) \o <<"-">> \o Pad(mo, 2) \o <<"-">> \o Pad(d, 2) \o <<"T">>
  \o Pad(h, 2) \o <<":">> \o Pad(mi, 2) \o <<":">> \o Pad(se, 2)
  \o <<".">> \o Pad(us, 6)

Rec(cols, vals) ==
  [c \in {cols[k] : k \in 1..Len(cols)} |->
     vals[CHOOSE k \in 1..Len(cols) : cols[k] = c]]

PersonCols == <<"first-name", "last-name", "gender", "phone-number", "city", "email">>

BankCols ==
  << "name", "country", "headquarters", "free-accounts",
     "english-customer-service", "english-website", "english-mobile-app",
     "free-worldwide-withdrawals", "allowed-residents" >>

AccountCols == <<"balance", "account-number", "opening-date", "account-type">>

CardCols == <<"card-number", "name-on-card", "created-date", "expiry-date">>

RepresentationCols == <<"identifier", "bank-account", "bank-card">>

TransactionCols ==
  << "identifier", "amount", "execution-date", "reference", "category",
     "account-of-receiver", "account-of-creator" >>

ContractCols == <<"identifier", "sign-date", "provider", "customer", "offer">>

Columns(loader) ==
  CASE loader = "insertPersons" -> PersonCols
    [] loader = "insertAccounts" -> AccountCols
    [] loader = "insertBanks" -> BankCols
    [] loader = "insertCards" -> CardCols
    [] loader = "insertRepresentationRelations" -> RepresentationCols
    [] loader = "insertBankTransactionRelations" -> TransactionCols
    [] loader = "insertContractRelations" -> ContractCols

SampleRows ==
  [loader \in Loaders |->
  CASE loader = "insertPersons" ->
       << Rec(PersonCols, << <<"Catalina">>, <<"Sargent">>, <<"female">>,
                             <<"621-620-0394">>, <<"Frankfurt">>,
                             <<"catalinasargent@googlemail.com">> >>),
          Rec(PersonCols, << <<"A">>, <<"B">>, <<"female">>, <<"123">>,
                             <<"X">>, <<"a@b.com">> >>),
          Rec(PersonCols, << <<"C">>, <<"D">>, <<"male">>, <<"456">>,
                             <<"Y">>, <<"c@d.com">> >>) >>
    [] loader = "insertBanks" ->
       << Rec(BankCols, << <<"N26">>, <<"Germany">>, <<"Berlin">>, <<"true">>,
                           <<"true">>, <<"true">>, <<"true">>, <<"true">>,
                           <<"EU residents">> >>),
          Rec(BankCols, << <<"Commerzbank">>, <<"Germany">>, <<"Frankfurt">>,
                           <<"false">>, <<"true">>, <<"true">>, <<"false">>,
                           <<"false">>, <<"all">> >>),
          Rec(BankCols, << <<"DKB">>, <<"Germany">>, <<"Berlin">>, <<"true">>,
                           <<"false">>, <<"false">>, <<"false">>, <<"true">>,
                           <<"all">> >>) >>
    [] loader = "insertAccounts" ->
       << Rec(AccountCols, << <<"2", "6", "7", ".", "6", "9">>,
                              <<"DE82444435329779109646">>,
                              Iso(2019, 1, 16, 10, 49, 31, 641721),
                              <<"credit">> >>),
          Rec(AccountCols, << <<"n", "/", "a">>,
                              <<"DE33510125629974889896">>,
                              Iso(2019, 2, 3, 15, 0, 7, 5),
                              <<"debit">> >>),
          Rec(AccountCols, << <<"0", "1", "0">>,
                              <<"DE10985785971549145687">>,
                              <<"1", "6", "/", "0", "1", "/", "1", "9">>,
                              <<"debit">> >>) >>
    [] loader = "insertCards" ->
       << Rec(CardCols, << <<"7", "0", "1", "2", "0", "8">>,
                           <<"Catalina Sargent">>,
                           Iso(2019, 1, 17, 10, 49, 31, 641721),
                           Iso(2029, 1, 14, 10, 49, 31, 641721) >>),
          Rec(CardCols, << <<"0", "0", "4", "2">>,
                           <<"A B">>,
                           <<"s", "o", "o", "n">>,
                           Iso(2029, 1, 14, 22, 49, 31, 641721) >>),
          Rec(CardCols, << <<"9", "9">>,
                           <<"C D">>,
                           Iso(2020, 2, 29, 0, 0, 0, 0),
                           Iso(2030, 2, 28, 23, 59, 59, 999999) >>) >>
    [] loader = "insertRepresentationRelations" ->
       << Rec(RepresentationCols, << <<"1">>, <<"DE82444435329779109646">>,
                                     <<"7", "0", "1", "2", "0", "8">> >>),
          Rec(RepresentationCols, << <<"0", "2">>, <<"DE33510125629974889896">>,
                                     <<"0", "0", "4", "2">> >>),
          Rec(RepresentationCols, << <<"3">>, <<"DE10985785971549145687">>,
                                     <<"c", "a", "r", "d">> >>) >>
    [] loader = "insertBankTransactionRelations" ->
       << Rec(TransactionCols, << <<"9">>, <<"8", "0", "3", ".", "4", "1">>,
                                  Iso(2019, 12, 16, 10, 49, 31, 641890),
                                  <<"thanks">>, <<"transfer">>,
                                  <<"DE33510125629974889896">>,
                                  <<"DE10985785971549145687">> >>),
          Rec(TransactionCols, << <<"0", "1", "0">>, <<"1", "2", "x">>,
                                  Iso(2019, 12, 17, 13, 5, 0, 120000),
                                  <<"rent">>, <<"transfer">>,
                                  <<"DE82444435329779109646">>,
                                  <<"DE33510125629974889896">> >>),
          Rec(TransactionCols, << <<>>, <<"5">>,
                                  <<"2", "0", "1", "9">>,
                                  <<"fee">>, <<"debit">>,
                                  <<"DE10985785971549145687">>,
                                  <<"DE10985785971549145687">> >>) >>
    [] loader = "insertContractRelations" ->
       << Rec(ContractCols, << <<"1">>, Iso(2019, 1, 13, 10, 49, 31, 641721),
                               <<"Commerzbank">>,
                               <<"catalinasargent@googlemail.com">>,
                               <<"DE82444435329779109646">> >>),
          Rec(ContractCols, << <<"0", "0", "7">>, <<"n", "o", "w">>,
                               <<"N26">>, <<"a@b.com">>,
                               <<"DE33510125629974889896">> >>),
          Rec(ContractCols, << <<"3">>, Iso(2019, 6, 30, 12, 0, 0, 1),
                               <<"DKB">>, <<"c@d.com">>,
                               <<"DE10985785971549145687">> >>) >> ]

FileRow(loader, k) ==
  SampleRows[loader][((k - 1) % Len(SampleRows[loader])) + 1]

\* fs.readFileSync + parse(data, {columns: true}): one record per data row
ReadFile(loader, n) == [k \in 1..n |-> FileRow(loader, k)]

(***************************************************************************)
(* The run                                                                 *)
(***************************************************************************)
NoStatement == Statement(<<>>, "", "", <<>>, <<>>)

Call(op, by, t, k, stmt, ok) ==
  [op |-> op, by |-> by, tx |-> t, row |-> k, arg |-> stmt, ok |-> ok]

Current == LoadOrder[next]

RunInit ==
  /\ mainPc = "start"
  /\ client = "none"
  /\ session = "none"
  /\ next = 1
  /\ loaderPc = "idle"
  /\ tx = 0
  /\ records = <<>>
  /\ row = 0
  /\ txs = <<>>
  /\ store = <<>>
  /\ calls = <<>>
  /\ files = [l \in Loaders |-> <<>>]

Init ==
  /\ RunInit
  /\ input = <<>>
  /\ output = <<>>

\* lines 518-519: new GraknClient(CLIENT_URI); await client.session(KEYSPACE)
Connect ==
  /\ mainPc = "start"
  /\ \E ok \in BOOLEAN :
       /\ calls' = Append(calls, Call("session", "main", 0, 0, NoStatement, ok))
       /\ client' = "open"
       /\ session' = IF ok THEN "open" ELSE "none"
       /\ mainPc' = IF ok THEN "load" ELSE "failed"
  /\ UNCHANGED <<next, loaderPc, tx, records, row, txs, store, files, input, output>>

\* main calls the next loader, which opens its write transaction and reads
\* and parses its whole file (e.g. lines 232-235)
\* the first revision's scheme: one transaction, opened once, used by all
OpenTransactionShared(loader) ==
  IF txs = <<>>
  THEN /\ txs' = <<[owner |-> loader, executed |-> <<>>, state |-> "open"]>>
       /\ tx' = 1
       /\ calls' = Append(calls, Call("transaction", loader, 1, 0, NoStatement, TRUE))
  ELSE /\ tx' = 1
       /\ txs' = [txs EXCEPT ![1].state = "open"]
       /\ UNCHANGED calls

OpenTransaction(loader) ==
  /\ txs' = Append(txs, [owner |-> loader, executed |-> <<>>, state |-> "open"])
  /\ tx' = Len(txs) + 1
  /\ calls' = Append(calls, Call("transaction", loader, Len(txs) + 1, 0, NoStatement, TRUE))

RECURSIVE RowsRead(_)
\* rows of the files the first k loaders have read
RowsRead(k) == IF k = 0 THEN 0 ELSE RowsRead(k - 1) + Len(files[LoadOrder[k]])

StartLoader ==
  /\ mainPc = "load"
  /\ loaderPc = "idle"
  /\ next <= Len(LoadOrder)
  /\ OpenTransaction(Current)
  /\ \E n \in 0..MaxRows :
       /\ RowsRead(next - 1) + n <= MaxTotalRows
       /\ records' = ReadFile(Current, n)
       /\ files' = [files EXCEPT ![Current] = ReadFile(Current, n)]
  /\ row' = 0
  /\ loaderPc' = "loop"
  /\ UNCHANGED <<mainPc, client, session, next, store, input, output>>

\* a loader that swallows the rejection and tries the call again
AbortRetry ==
  /\ loaderPc' = "loop"
  /\ mainPc' = "load"

\* the store rejects a call: the await throws, the loader's promise rejects,
\* main's await throws in turn and the async main ends there
Abort ==
  /\ loaderPc' = "failed"
  /\ mainPc' = "failed"

\* a loop that stops one record short
LoopDoneEarly == row >= Len(records) - 1

\* for (let record of records): the loop ends after the last record
LoopDone == row >= Len(records)

\* a store that makes each accepted statement visible at once
ExecuteAutoCommit(t, query) ==
  /\ txs' = [txs EXCEPT ![t].executed = Append(@, query)]
  /\ store' = Append(store, query)

\* a statement the store accepted is held by its transaction, invisible to
\* the committed store until the commit
Execute(t, query) ==
  /\ txs' = [txs EXCEPT ![t].executed = Append(@, query)]
  /\ UNCHANGED store

\* one iteration of the for-loop: build the query, await transaction.query
QueryRow ==
  /\ mainPc = "load"
  /\ loaderPc = "loop"
  /\ ~LoopDone
  /\ LET query == Query(Current, records[row + 1])
     IN \E ok \in BOOLEAN :
          /\ calls' = Append(calls, Call("query", Current, tx, row + 1, query, ok))
          /\ IF ok
             THEN /\ Execute(tx, query)
                  /\ row' = row + 1
                  /\ UNCHANGED <<mainPc, loaderPc>>
             ELSE /\ Abort
                  /\ UNCHANGED <<txs, store, row>>
  /\ UNCHANGED <<client, session, next, tx, records, files, input, output>>

\* after the loop: await transaction.commit(), then return to main
CommitLoader ==
  /\ mainPc = "load"
  /\ loaderPc = "loop"
  /\ LoopDone
  /\ \E ok \in BOOLEAN :
       /\ calls' = Append(calls, Call("commit", Current, tx, 0, NoStatement, ok))
       /\ IF ok
          THEN /\ txs' = [txs EXCEPT ![tx].state = "committed"]
               /\ store' = store \o txs[tx].executed
               /\ loaderPc' = "idle"
               /\ next' = next + 1
               /\ UNCHANGED mainPc
          ELSE /\ Abort
               /\ UNCHANGED <<txs, store, next>>
  /\ UNCHANGED <<client, session, tx, records, row, files, input, output>>

\* a main that closes the session as soon as no loader is running
CloseSessionEarly ==
  /\ mainPc = "load"
  /\ loaderPc = "idle"
  /\ calls' = Append(calls, Call("session.close", "main", 0, 0, NoStatement, TRUE))
  /\ session' = "closed"
  /\ mainPc' = "closeClient"
  /\ UNCHANGED <<client, next, loaderPc, tx, records, row, txs, store, files, input, output>>

\* lines 535-536: await session.close()
CloseSession ==
  /\ mainPc = "load"
  /\ loaderPc = "idle"
  /\ next > Len(LoadOrder)
  /\ calls' = Append(calls, Call("session.close", "main", 0, 0, NoStatement, TRUE))
  /\ session' = "closed"
  /\ mainPc' = "closeClient"
  /\ UNCHANGED <<client, next, loaderPc, tx, records, row, txs, store, files, input, output>>

\* lines 537-538: client.close()
CloseClient ==
  /\ mainPc = "closeClient"
  /\ calls' = Append(calls, Call("client.close", "main", 0, 0, NoStatement, TRUE))
  /\ client' = "closed"
  /\ mainPc' = "done"
  /\ UNCHANGED <<session, next, loaderPc, tx, records, row, txs, store, files, input, output>>

Next ==
  \/ Connect
  \/ StartLoader
  \/ QueryRow
  \/ CommitLoader
  \/ CloseSession
  \/ CloseClient

Spec == Init /\ [][Next]_vars

(***************************************************************************)
(* The date-time coercion alone, on every hour of the day                  *)
(***************************************************************************)
DateInputs ==
  { Iso(y, mo, d, h, mi, se, us) :
      y \in {2019, 2020}, mo \in {1, 2, 12}, d \in {1, 29, 31}, h \in 0..23,
      mi \in {0, 49}, se \in {0, 59}, us \in {0, 641721, 999999} }

InitDate ==
  /\ RunInit
  /\ input \in DateInputs
  /\ output = <<>>

CoerceDate ==
  /\ output = <<>>
  /\ output' = toGraknDateTime(input)
  /\ UNCHANGED <<input, mainPc, client, session, next, loaderPc, tx, records,
                 row, txs, store, calls, files>>

NextDate == CoerceDate

SpecDate == InitDate /\ [][NextDate]_vars

(***************************************************************************)
(* The statement templates alone, on records whose typed columns range     *)
(* over every digit string of up to MaxDigits characters                   *)
(***************************************************************************)
NumericCols == {"balance", "identifier", "card-number", "amount", "bank-card"}

DateCols ==
  {"opening-date", "created-date", "expiry-date", "execution-date", "sign-date"}

RECURSIVE Strings(_, _)
Strings(alphabet, n) ==
  IF n = 0 THEN {<<>>}
  ELSE Strings(alphabet, n - 1)
       \cup {Append(s, c) : s \in Strings(alphabet, n - 1), c \in alphabet}

NumericStrings == Strings({"0", "1", "7"}, MaxDigits) \ {<<>>}

ColumnValues(loader, col) ==
  IF col \in NumericCols THEN NumericStrings
  ELSE IF col \in DateCols
       THEN {Iso(2019, 1, 16, 10, 49, 31, 641721), Iso(2019, 12, 16, 9, 5, 0, 120000)}
       ELSE {FileRow(loader, k)[col] : k \in 1..2}

RECURSIVE Rows(_, _)
Rows(loader, k) ==
  IF k = 0 THEN {<<>>}
  ELSE {Append(t, v) : t \in Rows(loader, k - 1),
                       v \in ColumnValues(loader, Columns(loader)[k])}

TestRecords(loader) ==
  {Rec(Columns(loader), t) : t \in Rows(loader, Len(Columns(loader)))}

InitQuery ==
  /\ RunInit
  /\ \E l \in Loaders : \E r \in TestRecords(l) : input = [loader |-> l, record |-> r]
  /\ output = <<>>

BuildQuery ==
  /\ output = <<>>
  /\ output' = Query(input.loader, input.record)
  /\ UNCHANGED <<input, mainPc, client, session, next, loaderPc, tx, records,
                 row, txs, store, calls, files>>

NextQuery == BuildQuery

SpecQuery == InitQuery /\ [][NextQuery]_vars

(***************************************************************************)
(* Properties of the run                                                   *)
(***************************************************************************)
ClaimedOrder ==
  << "insertPersons", "insertAccounts", "insertBanks", "insertCards",
     "insertRepresentationRelations", "insertBankTransactionRelations",
     "insertContractRelations" >>

EntityLoaders == {"insertPersons", "insertAccounts", "insertBanks", "insertCards"}

RelationLoaders == Loaders \ EntityLoaders

PlaceOf(loader) == CHOOSE k \in 1..Len(ClaimedOrder) : ClaimedOrder[k] = loader

IsBegin(c) == c.op = "transaction"

Begins == SelectSeq(calls, IsBegin)

CommittedBefore(loader, p) ==
  \E q \in 1..(p - 1) :
    calls[q].op = "commit" /\ calls[q].ok /\ calls[q].by = loader

CallsOf(loader) == SelectSeq(calls, LAMBDA c : c.by = loader)

\* the statement of each record a source file can hold
StatementTable ==
  [l \in Loaders |->
     [r \in {SampleRows[l][k] : k \in 1..Len(SampleRows[l])} |-> Query(l, r)]]

StatementOf(loader, record) == StatementTable[loader][record]

\* the statements of a loader's whole file, in file order
RowsOf(loader) ==
  [j \in 1..Len(files[loader]) |-> StatementOf(loader, files[loader][j])]

\* C1: the loaders are started in the order persons, accounts, banks, cards,
\* represented-by, transactions, contracts, each one only after every loader
\* before it has committed; so all entity loaders have committed before a
\* relationship loader opens its transaction.
C1_LoadersStartInOrder ==
  /\ Len(Begins) <= Len(ClaimedOrder)
  /\ \A k \in 1..Len(Begins) : Begins[k].by = ClaimedOrder[k]
  /\ \A p \in 1..Len(calls) :
       IsBegin(calls[p]) =>
         /\ \A j \in 1..(PlaceOf(calls[p].by) - 1) :
              CommittedBefore(ClaimedOrder[j], p)
         /\ calls[p].by \in RelationLoaders =>
              \A e \in EntityLoaders : CommittedBefore(e, p)

C1_Witness == Len(Begins) = 7 /\ loaderPc = "loop"

\* the successful statements of transaction t, in call order
ExecutedOn(t) ==
  LET qs == SelectSeq(calls, LAMBDA c : c.op = "query" /\ c.tx = t /\ c.ok)
  IN [j \in 1..Len(qs) |-> qs[j].arg]

\* C2: when the store rejects the statement of row k of a loader, exactly the
\* statements of rows 1..k-1 were executed on its transaction, no statement of
\* a later row is executed, no commit is issued on that transaction and no
\* later loader is started.
C2_RejectedRowStopsTheRun ==
  \A p \in 1..Len(calls) :
    (calls[p].op = "query" /\ ~calls[p].ok) =>
      LET l == calls[p].by
          k == calls[p].row
          t == calls[p].tx
      IN /\ k \in 1..Len(files[l])
         /\ calls[p].arg = StatementOf(l, files[l][k])
         /\ ExecutedOn(t) = SubSeq(RowsOf(l), 1, k - 1)
         /\ txs[t].executed = SubSeq(RowsOf(l), 1, k - 1)
         /\ \A q \in 1..Len(calls) :
              calls[q].op = "commit" => calls[q].tx # t
         /\ \A q \in (p + 1)..Len(calls) :
              calls[q].op \notin {"transaction", "query", "commit"}
         /\ Len(Begins) = PlaceOf(l)

C2_Witness ==
  /\ next = 5
  /\ Len(files[Current]) = 2
  /\ calls[Len(calls)].op = "query"
  /\ ~calls[Len(calls)].ok
  /\ calls[Len(calls)].row = 2

RECURSIVE Loaded(_)
\* the statements of the first k loaders, whole files in load order
Loaded(k) == IF k = 0 THEN <<>> ELSE Loaded(k - 1) \o RowsOf(ClaimedOrder[k])

CommittedLoaders ==
  Cardinality({p \in 1..Len(calls) : calls[p].op = "commit" /\ calls[p].ok})

\* C3: the committed store holds exactly the whole files of the loaders that
\* committed and nothing of a loader that has not: after a run stopped by a
\* failure of loader L, the rows of the loaders before L and none of L's.
C3_StoreHoldsWholeFilesOnly ==
  /\ store = Loaded(CommittedLoaders)
  /\ (mainPc = "failed" /\ loaderPc = "failed") =>
       /\ CommittedLoaders = PlaceOf(calls[Len(calls)].by) - 1
       /\ txs[tx].state # "committed"

C3_Witness ==
  /\ mainPc = "failed"
  /\ loaderPc = "failed"
  /\ next = 3
  /\ Len(store) = 3
  /\ Len(txs[tx].executed) = 1

\* what a loader that meets no failure calls on the store, on transaction t
ExpectedCalls(loader, t) ==
  << Call("transaction", loader, t, 0, NoStatement, TRUE) >>
  \o [j \in 1..Len(files[loader]) |->
        Call("query", loader, t, j, RowsOf(loader)[j], TRUE)]
  \o << Call("commit", loader, t, 0, NoStatement, TRUE) >>

Returned(loader) == PlaceOf(loader) <= CommittedLoaders

\* C4: a loader whose store calls all succeed opens one transaction, executes
\* on it exactly one statement per row of its file, in file order, and then
\* commits it once, after the last statement; for a file without rows it
\* executes nothing and commits once.
C4_OneStatementPerRowThenOneCommit ==
  \A l \in Loaders :
    LET cs == CallsOf(l)
    IN (cs # <<>> /\ \A k \in 1..Len(cs) : cs[k].ok) =>
         LET want == ExpectedCalls(l, cs[1].tx)
         IN /\ Len(cs) <= Len(want)
            /\ cs = SubSeq(want, 1, Len(cs))
            /\ Returned(l) => cs = want
            /\ Len(cs) = Len(want) => Returned(l)

C4_Witness ==
  /\ Returned("insertPersons") /\ Len(files["insertPersons"]) = 0
  /\ Returned("insertAccounts") /\ Len(files["insertAccounts"]) = 2
  /\ Len(CallsOf("insertPersons")) = 2
  /\ Len(CallsOf("insertAccounts")) = 4

EntityLoaderOf(type) ==
  CASE type = "person" -> "insertPersons"
    [] type = "account" -> "insertAccounts"
    [] type = "bank" -> "insertBanks"
    [] type = "card" -> "insertCards"

Requires(loader) ==
  CASE loader = "insertRepresentationRelations" -> {"insertCards", "insertAccounts"}
    [] loader = "insertBankTransactionRelations" -> {"insertAccounts"}
    [] loader = "insertContractRelations" ->
         {"insertBanks", "insertPersons", "insertAccounts"}

\* C5: when a relationship loader executes a statement, the loader of every
\* entity type the statement matches on has committed: card and account for
\* represented-by, account for transaction, bank, person and account for
\* contract.
C5_MatchedEntitiesAreCommitted ==
  \A p \in 1..Len(calls) :
    (calls[p].op = "query" /\ calls[p].by \in RelationLoaders) =>
      LET m == calls[p].arg.match
      IN /\ {EntityLoaderOf(m[k].isa) : k \in 1..Len(m)} = Requires(calls[p].by)
         /\ \A e \in Requires(calls[p].by) : CommittedBefore(e, p)

C5_Witness ==
  /\ calls # <<>>
  /\ calls[Len(calls)].op = "query"
  /\ calls[Len(calls)].by = "insertContractRelations"
  /\ calls[Len(calls)].ok

OpenTxs == {t \in 1..Len(txs) : txs[t].state = "open"}

\* C6: each loader opens exactly one write transaction, every call on a
\* transaction is made by the loader that opened it, and at most one
\* transaction is open and uncommitted at a time.
C6_OneTransactionPerLoader ==
  /\ \A l \in Loaders :
       CallsOf(l) # <<>> => Len(SelectSeq(CallsOf(l), IsBegin)) = 1
  /\ Len(txs) = Len(Begins)
  /\ \A t, u \in 1..Len(txs) : txs[t].owner = txs[u].owner => t = u
  /\ \A p \in 1..Len(calls) :
       calls[p].op \in {"transaction", "query", "commit"} =>
         /\ calls[p].tx \in 1..Len(txs)
         /\ txs[calls[p].tx].owner = calls[p].by
  /\ Cardinality(OpenTxs) <= 1
  /\ \A p \in 2..Len(calls) :
       IsBegin(calls[p]) => calls[p - 1].op \in {"commit", "session"} /\ calls[p - 1].ok

C6_Witness ==
  /\ Len(txs) = 7
  /\ \A t \in 1..Len(txs) : txs[t].state = "committed"
  /\ session = "open"

(***************************************************************************)
(* Properties of the coercions and of the templates                        *)
(***************************************************************************)
NotNumber(s) == \E k \in 1..Len(s) : s[k] \notin DigitSet \cup {"."}

NotDate(s) ==
  \/ Len(s) < 19
  \/ \E k \in 1..Len(s) : s[k] \notin DigitSet \cup {"-", "T", ":", "."}

Malformed(loader, record) ==
  \E c \in DOMAIN record :
    \/ c \in NumericCols /\ NotNumber(record[c])
    \/ c \in DateCols /\ NotDate(record[c])

\* the columns each loader coerces with the unary plus
PlusColumns(loader) ==
  CASE loader = "insertAccounts" -> {"balance"}
    [] loader = "insertCards" -> {"card-number"}
    [] loader = "insertBankTransactionRelations" -> {"identifier", "amount"}
    [] loader = "insertRepresentationRelations" -> {"bank-card"}
    [] OTHER -> {}

\* C7 as stated: a row with an unparsable numeric or date-time field fails in
\* the coercion, so no statement is ever sent to the store for such a row.
C7_MalformedRowIsNeverSent ==
  \A p \in 1..Len(calls) :
    calls[p].op = "query" =>
      ~Malformed(calls[p].by, files[calls[p].by][calls[p].row])

\* C7 amended: the coercion never fails.  An unparsable field coerced with
\* the unary plus is emitted as NaN, an unparsable date-time as Invalid date,
\* an unparsable identifier of contract or represented-by as its raw text,
\* and the statement is sent to the store; only when the store rejects the
\* call does the loader stop, with no later statement and no commit.
C7_MalformedRowIsSentAsGarbage ==
  \A p \in 1..Len(calls) :
    calls[p].op = "query" =>
      LET l == calls[p].by
          rec == files[l][calls[p].row]
          st == calls[p].arg
          t == calls[p].tx
      IN /\ \A h \in 1..Len(st.has) :
              LET a == st.has[h].attr
                  v == st.has[h].value
              IN /\ (a \in PlusColumns(l) /\ NotNumber(rec[a])) =>
                      v = Bare(<<"N", "a", "N">>)
                 /\ (a \in DateCols /\ NotDate(rec[a])) =>
                      v = Bare(<<"Invalid date">>)
                 /\ (a \in NumericCols \ PlusColumns(l)) => v = Bare(rec[a])
         /\ \A m \in 1..Len(st.match) :
              (st.match[m].attr = "card-number" /\ NotNumber(rec["bank-card"])) =>
                st.match[m].value = Bare(<<"N", "a", "N">>)
         /\ calls[p].ok => \E q \in 1..Len(txs[t].executed) : txs[t].executed[q] = st
         /\ ~calls[p].ok =>
              /\ p = Len(calls)
              /\ txs[t].state = "open"
              /\ Len(txs[t].executed) = calls[p].row - 1

C7_Witness ==
  /\ calls # <<>>
  /\ calls[Len(calls)].op = "query"
  /\ ~calls[Len(calls)].ok
  /\ calls[Len(calls)].by = "insertBankTransactionRelations"
  /\ calls[Len(calls)].row = 2
  /\ Malformed("insertBankTransactionRelations", records[2])
  /\ \E p \in 1..Len(calls) :
       /\ calls[p].by = "insertAccounts"
       /\ calls[p].op = "query"
       /\ calls[p].row = 2
       /\ calls[p].ok

\* a source date-time whose fields are in range
ValidSourceDate(s) ==
  /\ Len(s) = 26
  /\ DigitsVal(SubSeq(s, 6, 7)) \in 1..12
  /\ DigitsVal(SubSeq(s, 9, 10)) \in
       1..DaysInMonth(DigitsVal(SubSeq(s, 1, 4)), DigitsVal(SubSeq(s, 6, 7)))
  /\ DigitsVal(SubSeq(s, 12, 13)) \in 0..23
  /\ DigitsVal(SubSeq(s, 15, 16)) \in 0..59
  /\ DigitsVal(SubSeq(s, 18, 19)) \in 0..59

\* YYYY-MM-DD 'T' HH:MM:SS.mmm
LiteralShape(s) ==
  /\ Len(s) = 23
  /\ \A k \in 1..23 :
       IF k \in {5, 8} THEN s[k] = "-"
       ELSE IF k = 11 THEN s[k] = "T"
       ELSE IF k \in {14, 17} THEN s[k] = ":"
       ELSE IF k = 20 THEN s[k] = "."
       ELSE s[k] \in DigitSet

\* C8: for every valid source date-time, at any hour 0..23, the literal has
\* the shape YYYY-MM-DD'T'HH:MM:SS.mmm and carries the year, month, day, hour,
\* minute and second of the source, the fraction cut to three digits.
C8_LiteralKeepsEveryField ==
  (output # <<>> /\ ValidSourceDate(input)) =>
    /\ LiteralShape(output)
    /\ SubSeq(output, 1, 19) = SubSeq(input, 1, 19)
    /\ SubSeq(output, 21, 23) = SubSeq(input, 21, 23)

RECURSIVE StripLeadingZeros(_)
StripLeadingZeros(s) ==
  IF Len(s) > 1 /\ s[1] = "0" THEN StripLeadingZeros(Tail(s)) ELSE s

NumericAttributes == {"balance", "identifier", "card-number", "amount"}

\* C9: in every loader each numeric attribute (balance, identifier,
\* card-number, amount) is emitted as the bare canonical literal of the number
\* parsed from the column, identifier of transaction, contract and
\* represented-by alike.
C9_NumericLiteralIsCanonical ==
  (output # <<>>) =>
    \A h \in 1..Len(output.has) :
      output.has[h].attr \in NumericAttributes =>
        /\ ~output.has[h].value.quoted
        /\ output.has[h].value.text =
             StripLeadingZeros(input.record[output.has[h].attr])

RoleRow(r, type, key, col, numeric) ==
  [role |-> r, type |-> type, key |-> key, column |-> col, numeric |-> numeric]

\* the roles of each relationship, the entity type and natural key of each
\* role, and the column of the source file that holds the key
RoleTable(loader) ==
  CASE loader = "insertBankTransactionRelations" ->
         << RoleRow("account-of-receiver", "account", "account-number",
                    "account-of-receiver", FALSE),
            RoleRow("account-of-creator", "account", "account-number",
                    "account-of-creator", FALSE) >>
    [] loader = "insertContractRelations" ->
         << RoleRow("provider", "bank", "name", "provider", FALSE),
            RoleRow("customer", "person", "email", "customer", FALSE),
            RoleRow("offer", "account", "account-number", "offer", FALSE) >>
    [] loader = "insertRepresentationRelations" ->
         << RoleRow("bank-card", "card", "card-number", "bank-card", TRUE),
            RoleRow("bank-account", "account", "account-number",
                    "bank-account", FALSE) >>

RelationOf(loader) ==
  CASE loader = "insertBankTransactionRelations" -> "transaction"
    [] loader = "insertContractRelations" -> "contract"
    [] loader = "insertRepresentationRelations" -> "represented-by"

KeyLiteral(numeric, raw) ==
  IF numeric THEN [quoted |-> FALSE, text |-> StripLeadingZeros(raw)]
  ELSE [quoted |-> TRUE, text |-> raw]

\* C10: a relationship statement has one match clause per role, each binding
\* its own variable to an entity of the role's type whose natural key equals
\* the record's column for that role, and its insert clause fills every role
\* with the variable bound for that role.
C10_RolesAreFilledByTheirMatches ==
  (output # <<>> /\ input.loader \in RelationLoaders) =>
    LET st == output
        rt == RoleTable(input.loader)
    IN /\ st.isa = RelationOf(input.loader)
       /\ Len(st.match) = Len(rt)
       /\ Len(st.roles) = Len(rt)
       /\ \A i, j \in 1..Len(st.match) :
            st.match[i].var = st.match[j].var => i = j
       /\ \A i, j \in 1..Len(st.roles) :
            st.roles[i].var = st.roles[j].var => i = j
       /\ \A r \in 1..Len(rt) :
            \E i \in 1..Len(st.roles) : \E m \in 1..Len(st.match) :
              /\ st.roles[i].role = rt[r].role
              /\ st.roles[i].var = st.match[m].var
              /\ st.match[m].isa = rt[r].type
              /\ st.match[m].attr = rt[r].key
              /\ st.match[m].value =
                   KeyLiteral(rt[r].numeric, input.record[rt[r].column])

C10_Witness ==
  /\ output # <<>>
  /\ input.loader = "insertBankTransactionRelations"
  /\ input.record["account-of-receiver"] # input.record["account-of-creator"]
  /\ Len(output.match) = 2

(***************************************************************************)
(* Properties of the shutdown                                              *)
(***************************************************************************)
CallsWith(op) == {p \in 1..Len(calls) : calls[p].op = op}

\* C11: the session is closed at most once and only after all seven loader
\* transactions have been committed, the client only after the session; no
\* transaction is opened or used after the session is closed, and when a
\* loader fails neither session nor client is ever closed and the failing
\* loader's transaction stays open and uncommitted.
C11_CloseOnlyAfterAllCommits ==
  /\ Cardinality(CallsWith("session.close")) <= 1
  /\ Cardinality(CallsWith("client.close")) <= 1
  /\ \A p \in CallsWith("session.close") :
       /\ \A k \in 1..Len(ClaimedOrder) : CommittedBefore(ClaimedOrder[k], p)
       /\ \A q \in (p + 1)..Len(calls) :
            calls[q].op \notin {"transaction", "query", "commit"}
  /\ \A p \in CallsWith("client.close") :
       \E q \in CallsWith("session.close") : q < p
  /\ session = "closed" =>
       /\ CallsWith("session.close") # {}
       /\ Len(txs) = Len(ClaimedOrder)
       /\ \A t \in 1..Len(txs) : txs[t].state = "committed"
  /\ client = "closed" => session = "closed" /\ CallsWith("client.close") # {}
  /\ loaderPc = "failed" =>
       /\ CallsWith("session.close") = {}
       /\ CallsWith("client.close") = {}
       /\ session = "open"
       /\ client = "open"
       /\ mainPc = "failed"
       /\ ~calls[Len(calls)].ok
       /\ calls[Len(calls)].tx = tx
       /\ txs[tx].state = "open"
       /\ \A q \in CallsWith("commit") : calls[q].tx = tx => ~calls[q].ok

C11_Witness ==
  /\ mainPc = "done"
  /\ session = "closed"
  /\ client = "closed"
  /\ Len(store) >= 2

====
